---- MODULE Spec2Model ----
(***************************************************************************)
(* Morelia: a small Python-to-LLVM-IR compiler.                            *)
(*                                                                         *)
(*   compiler.py      MoreliaCompiler   the facade (parse, pre-process,    *)
(*                                      check, emit, write)                *)
(*   type_checker.py  TypeChecker       the definition checker             *)
(*   ast_visitor.py   LLVMIRGenerator   the IR emitter                     *)
(*                                                                         *)
(* The program tree is the output of Python's ast.parse, which is outside  *)
(* the repository: Init draws it from a bounded family of trees.  IR text  *)
(* and error messages are TLA+ strings, built the way the f-strings of the *)
(* source build them.  A Python str is a sequence of code points, so that  *)
(* encode('utf-8') and the escaping are computed, not assumed.             *)
(***************************************************************************)
EXTENDS Integers, Sequences, FiniteSets, TLC

(***************************************************************************)
(* Bounds of the model.                                                    *)
(***************************************************************************)
\* statements in the body of a top-level function
MaxBody == 2

\* characters in a string handed to the escaper
MaxLen == 2

(***************************************************************************)
(* Python text.                                                            *)
(***************************************************************************)
\* chr(b) for the printable ASCII bytes 32..126.  A TLA+ string cannot hold
\* the grave accent (byte 96), so that one byte is outside the model's
\* alphabet and its place in the table is never read.
PrintableASCII == " !\"#$%&'()*+,-./0123456789:;<=>?@ABCDEFGHIJKLMNOPQRSTUVWXYZ[\\]^_?abcdefghijklmnopqrstuvwxyz{|}~"

chr(b) == SubSeq(PrintableASCII, b - 31, b - 31)

HexDigits == "0123456789ABCDEF"

\* f'{b:02X}' for a byte
FormatHex02X(b) ==
    SubSeq(HexDigits, (b \div 16) + 1, (b \div 16) + 1)
        \o SubSeq(HexDigits, (b % 16) + 1, (b % 16) + 1)

\* the UTF-8 encoding of one code point
EncodeCodePoint(cp) ==
    IF cp < 128 THEN <<cp>>
    ELSE IF cp < 2048 THEN <<192 + (cp \div 64), 128 + (cp % 64)>>
    ELSE IF cp < 65536
         THEN <<224 + (cp \div 4096), 128 + ((cp \div 64) % 64), 128 + (cp % 64)>>
    ELSE <<240 + (cp \div 262144), 128 + ((cp \div 4096) % 64),
           128 + ((cp \div 64) % 64), 128 + (cp % 64)>>

RECURSIVE encode_utf8(_)
\* py_string.encode('utf-8'): the bytes of a str
encode_utf8(s) ==
    IF s = <<>> THEN <<>>
    ELSE EncodeCodePoint(Head(s)) \o encode_utf8(Tail(s))

RECURSIVE Join(_, _)
\* sep.join(lines)
Join(sep, lines) ==
    IF lines = <<>> THEN ""
    ELSE IF Len(lines) = 1 THEN lines[1]
    ELSE lines[1] \o sep \o Join(sep, Tail(lines))

StartsWith(s, p) == Len(s) >= Len(p) /\ SubSeq(s, 1, Len(p)) = p

Whitespace == {" ", "\t", "\n", "\r"}

RECURSIVE LStrip(_)
LStrip(s) ==
    IF Len(s) > 0 /\ SubSeq(s, 1, 1) \in Whitespace
    THEN LStrip(SubSeq(s, 2, Len(s))) ELSE s

RECURSIVE RStrip(_)
RStrip(s) ==
    IF Len(s) > 0 /\ SubSeq(s, Len(s), Len(s)) \in Whitespace
    THEN RStrip(SubSeq(s, 1, Len(s) - 1)) ELSE s

\* str.strip()
Strip(s) == RStrip(LStrip(s))

(***************************************************************************)
(* The program tree (Python's ast nodes).  NoneNode is Python's None where *)
(* a node is optional (FunctionDef.returns, Return.value).                 *)
(***************************************************************************)
NoneNode == [kind |-> "NoneNode"]

Name(id) == [kind |-> "Name", id |-> id, ctx |-> "Load"]

\* ast.Constant: vtype is type(value).__name__; sval the code points of a str
\* value, ival an int value, repr str(value)
StrConstant(s) ==
    [kind |-> "Constant", vtype |-> "str", sval |-> s, ival |-> 0, repr |-> ""]

IntConstant(i) ==
    [kind |-> "Constant", vtype |-> "int", sval |-> <<>>, ival |-> i,
     repr |-> ToString(i)]

OtherConstant(vtype, repr) ==
    [kind |-> "Constant", vtype |-> vtype, sval |-> <<>>, ival |-> 0, repr |-> repr]

NoneConstant == OtherConstant("NoneType", "None")

Call(func, args) == [kind |-> "Call", func |-> func, args |-> args]

Attribute(value, attr) == [kind |-> "Attribute", value |-> value, attr |-> attr]

Expr(value) == [kind |-> "Expr", value |-> value]

Return(value) == [kind |-> "Return", value |-> value]

Pass == [kind |-> "Pass"]

FunctionDef(name, returns, body) ==
    [kind |-> "FunctionDef", name |-> name, returns |-> returns, body |-> body]

Module(body) == [kind |-> "Module", body |-> body]

\* isinstance(node.value, T) for a Constant: bool is a subclass of int
IsInstance(node, types) ==
    \/ node.vtype \in types
    \/ node.vtype = "bool" /\ "int" \in types

IsStrConstant(node) == node.kind = "Constant" /\ IsInstance(node, {"str"})

\* isinstance(stmt, ast.Expr) and isinstance(stmt.value, ast.Constant)
\*   and isinstance(stmt.value.value, str)
IsDocstringStmt(stmt) == stmt.kind = "Expr" /\ IsStrConstant(stmt.value)

\* ast.iter_fields, restricted to the fields that hold nodes, in _fields order
ChildNodes(node) ==
    CASE node.kind = "Module" -> node.body
      [] node.kind = "Expr" -> <<node.value>>
      [] node.kind = "Return" ->
            IF node.value = NoneNode THEN <<>> ELSE <<node.value>>
      [] node.kind = "Call" -> <<node.func>> \o node.args
      [] node.kind = "Attribute" -> <<node.value>>
      [] OTHER -> <<>>

(***************************************************************************)
(* compiler.py: the pre-processing of return annotations.                  *)
(***************************************************************************)
RECURSIVE PreprocessAnnotations(_)
\* for node in ast.walk(ast_module): a FunctionDef whose returns is
\* Constant(None) gets Name('None') instead.  ast.walk reaches every node, so
\* nested definitions are rewritten too.
PreprocessAnnotations(node) ==
    CASE node.kind = "Module" ->
            [node EXCEPT !.body =
                [i \in DOMAIN node.body |-> PreprocessAnnotations(node.body[i])]]
      [] node.kind = "FunctionDef" ->
            [node EXCEPT
                !.returns =
                    IF node.returns.kind = "Constant"
                       /\ node.returns.vtype = "NoneType"
                    THEN Name("None") ELSE node.returns,
                !.body =
                    [i \in DOMAIN node.body |-> PreprocessAnnotations(node.body[i])]]
      [] OTHER -> node

(***************************************************************************)
(* type_checker.py: TypeChecker.  A method takes self (the record of the   *)
(* instance's fields) and returns the instance after the call.             *)
(***************************************************************************)
\* Python values held in self.builtins: the None sentinel and two types
PyNone == "None"
TypeNone == "<class 'NoneType'>"
TypeInt == "<class 'int'>"

TypeChecker__init__ ==
    [errors |-> <<>>,
     variables |-> {},
     builtins |-> [n \in {"print", "None", "NoneType", "int"} |->
                    CASE n = "print" -> PyNone
                      [] n = "None" -> TypeNone
                      [] n = "NoneType" -> TypeNone
                      [] n = "int" -> TypeInt]]

\* an append that drops the errors collected so far
AppendError_Replacing(self, msg) == [self EXCEPT !.errors = <<msg>>]

AppendError(self, msg) == [self EXCEPT !.errors = Append(self.errors, msg)]

\* str(type(annotation)) in the "Unknown annotation type" message
TypeRepr(node) == "<class 'ast." \o node.kind \o "'>"

\* returns [self, type]: the type found, PyNone when there is none
TypeChecker_get_type_annotation(self, annotation) ==
    IF annotation.kind = "Name"
    THEN IF annotation.id \in DOMAIN self.builtins
         THEN [self |-> self, type |-> self.builtins[annotation.id]]
         ELSE [self |-> AppendError(self,
                          "Unsupported type annotation: " \o annotation.id),
               type |-> PyNone]
    ELSE IF annotation.kind = "Constant" /\ annotation.vtype = "NoneType"
    THEN [self |-> self, type |-> TypeNone]
    ELSE [self |-> AppendError(self,
                     "Unknown annotation type: " \o TypeRepr(annotation)),
          type |-> PyNone]

TypeChecker_visit_Name(self, node) ==
    IF node.id = "None" \/ node.id = "NoneType" THEN self
    ELSE IF node.id \in DOMAIN self.builtins THEN self
    ELSE IF node.id \notin self.variables
    THEN AppendError(self, "Undefined variable: " \o node.id)
    ELSE self

TypeChecker_visit_Constant(self, node) ==
    IF IsInstance(node, {"str", "int"}) \/ node.vtype = "NoneType" THEN self
    ELSE AppendError(self, "Unsupported constant type: " \o node.vtype)

RECURSIVE TypeChecker_visit(_, _)
RECURSIVE TypeChecker_visit_each(_, _)

\* for child in nodes: self.visit(child)
TypeChecker_visit_each(self, nodes) ==
    IF nodes = <<>> THEN self
    ELSE TypeChecker_visit_each(TypeChecker_visit(self, Head(nodes)), Tail(nodes))

\* NodeVisitor.generic_visit: visit every child node in field order
TypeChecker_generic_visit(self, node) ==
    TypeChecker_visit_each(self, ChildNodes(node))

\* a visit_FunctionDef that reports the missing annotation and goes on into
\* the body
TypeChecker_visit_FunctionDef_NoEarlyReturn(self, node) ==
    IF node.returns = NoneNode
    THEN TypeChecker_visit_each(
            AppendError(self,
                "Function " \o node.name \o " lacks return type annotation"),
            node.body)
    ELSE LET r == TypeChecker_get_type_annotation(self, node.returns) IN
         IF r.type = PyNone
         THEN AppendError(r.self,
                "Invalid return type annotation for function " \o node.name)
         ELSE TypeChecker_visit_each(r.self, node.body)

TypeChecker_visit_FunctionDef(self, node) ==
    IF node.returns = NoneNode
    THEN AppendError(self,
            "Function " \o node.name \o " lacks return type annotation")
    ELSE LET r == TypeChecker_get_type_annotation(self, node.returns) IN
         IF r.type = PyNone
         THEN AppendError(r.self,
                "Invalid return type annotation for function " \o node.name)
         ELSE TypeChecker_visit_each(r.self, node.body)

TypeChecker_visit_Call(self, node) ==
    IF node.func.kind = "Name"
    THEN IF node.func.id = "print" THEN self
         ELSE IF node.func.id \in self.variables THEN self
         ELSE TypeChecker_generic_visit(
                AppendError(self, "Undefined function: " \o node.func.id), node)
    ELSE TypeChecker_generic_visit(self, node)

\* NodeVisitor.visit: dispatch on the node's class
TypeChecker_visit(self, node) ==
    CASE node.kind = "FunctionDef" -> TypeChecker_visit_FunctionDef(self, node)
      [] node.kind = "Name" -> TypeChecker_visit_Name(self, node)
      [] node.kind = "Constant" -> TypeChecker_visit_Constant(self, node)
      [] node.kind = "Call" -> TypeChecker_visit_Call(self, node)
      [] OTHER -> TypeChecker_generic_visit(self, node)

\* mutant: check() returns True whatever was collected
TypeChecker_check_result_AlwaysTrue(self) == TRUE

\* the value check() returns once the visit is over
TypeChecker_check_result(self) == Len(self.errors) = 0

(***************************************************************************)
(* ast_visitor.py: LLVMIRGenerator.  A visit method takes self and returns *)
(* [self |-> the instance after the call, val |-> the value returned].     *)
(* The returned values are only ever interpolated into f-strings, so a     *)
(* value is modelled by its str(): "None" for None.                        *)
(***************************************************************************)
LLVMIRGenerator__init__ ==
    [module_prefix_code |-> <<"declare i32 @printf(i8*, ...)">>,
     global_definitions |-> <<>>,
     all_function_definitions_code |-> <<>>,
     current_function_body_code |-> <<>>,
     variables |-> {},
     current_function_name |-> PyNone,
     block_counter |-> 0]

\* an escaper that lets the double quote through
EscapeByte_QuoteUnescaped(char_code) ==
    IF char_code = 92 THEN "\\5C"
    ELSE IF char_code = 10 THEN "\\0A"
    ELSE IF char_code = 13 THEN "\\0D"
    ELSE IF char_code = 9 THEN "\\09"
    ELSE IF ~(32 <= char_code /\ char_code <= 126)
    THEN "\\" \o FormatHex02X(char_code)
    ELSE chr(char_code)

\* one iteration of the loop over py_string.encode('utf-8')
EscapeByte(char_code) ==
    IF char_code = 92 THEN "\\5C"
    ELSE IF char_code = 34 THEN "\\22"
    ELSE IF char_code = 10 THEN "\\0A"
    ELSE IF char_code = 13 THEN "\\0D"
    ELSE IF char_code = 9 THEN "\\09"
    ELSE IF ~(32 <= char_code /\ char_code <= 126)
    THEN "\\" \o FormatHex02X(char_code)
    ELSE chr(char_code)

RECURSIVE EscapeBytes(_)
EscapeBytes(bytes) ==
    IF bytes = <<>> THEN ""
    ELSE EscapeByte(Head(bytes)) \o EscapeBytes(Tail(bytes))

escape_llvm_string(py_string) == EscapeBytes(encode_utf8(py_string))

map_ast_annotation_to_llvm(annotation_node) ==
    IF annotation_node = NoneNode THEN "void"
    ELSE IF annotation_node.kind = "Name" /\ annotation_node.id = "None" THEN "void"
    ELSE IF annotation_node.kind = "Name" /\ annotation_node.id = "int" THEN "i32"
    ELSE IF annotation_node.kind = "Name" /\ annotation_node.id = "str" THEN "i8*"
    ELSE IF annotation_node.kind = "Constant" /\ annotation_node.vtype = "NoneType"
    THEN "void"
    ELSE "void"

\* f"i8* getelementptr inbounds ([{n} x i8], [{n} x i8]* @{name}, i32 0, i32 0)"
GEP(n, name) ==
    "i8* getelementptr inbounds ([" \o ToString(n) \o " x i8], ["
        \o ToString(n) \o " x i8]* @" \o name \o ", i32 0, i32 0)"

\* the declaration line built in visit_Constant: c\"...\" in a plain f-string
\* is a double quote, and r"\00" is a backslash and two zeros
StringGlobalDef(string_name, llvm_str_len, escaped_value) ==
    "@" \o string_name \o " = private unnamed_addr constant ["
        \o ToString(llvm_str_len) \o " x i8] c\"" \o escaped_value
        \o "\\00" \o "\", align 1"

\* the declaration line built in visit_Call, for the newline and the format
\* constants: c\\\"...\\\" in a plain f-string is a backslash and a double
\* quote, and r"\\00" is two backslashes and two zeros
CallGlobalDef(name, llvm_len, escaped_content) ==
    "@" \o name \o " = private unnamed_addr constant ["
        \o ToString(llvm_len) \o " x i8] c\\\"" \o escaped_content
        \o "\\\\00" \o "\\\", align 1"

\* a lookup that never finds the definition
IsDefined_Never(self, definition) == FALSE

\* for gd in self.global_definitions: if definition == gd: is_defined = True
IsDefined(self, definition) ==
    \E i \in DOMAIN self.global_definitions : self.global_definitions[i] = definition

AppendGlobal(self, definition) ==
    [self EXCEPT !.global_definitions = Append(self.global_definitions, definition)]

AppendBody(self, line) ==
    [self EXCEPT !.current_function_body_code =
                    Append(self.current_function_body_code, line)]

\* a visit_Constant that names the string constant and leaves the counter
LLVMIRGenerator_visit_Constant_NoIncrement(self, node) ==
    IF IsInstance(node, {"str"})
    THEN LET string_name == "str_" \o ToString(self.block_counter)
             escaped_value == escape_llvm_string(node.sval)
             llvm_str_len == Len(encode_utf8(node.sval)) + 1
             global_str_def ==
                 StringGlobalDef(string_name, llvm_str_len, escaped_value)
         IN [self |-> AppendGlobal(self, global_str_def),
             val |-> GEP(llvm_str_len, string_name)]
    ELSE IF IsInstance(node, {"int", "float"})
    THEN [self |-> self,
          val |-> IF IsInstance(node, {"float"})
                  THEN "double " \o node.repr ELSE node.repr]
    ELSE IF node.vtype = "NoneType"
    THEN [self |-> self,
          val |-> "null ; Representing Python None as null pointer or in void context"]
    ELSE [self |-> self, val |-> "; Unhandled Constant: " \o node.repr]

LLVMIRGenerator_visit_Constant(self, node) ==
    IF IsInstance(node, {"str"})
    THEN LET string_name == "str_" \o ToString(self.block_counter)
             escaped_value == escape_llvm_string(node.sval)
             llvm_str_len == Len(encode_utf8(node.sval)) + 1
             global_str_def ==
                 StringGlobalDef(string_name, llvm_str_len, escaped_value)
         IN [self |-> AppendGlobal(
                        [self EXCEPT !.block_counter = self.block_counter + 1],
                        global_str_def),
             val |-> GEP(llvm_str_len, string_name)]
    ELSE IF IsInstance(node, {"int", "float"})
    THEN [self |-> self,
          val |-> IF IsInstance(node, {"float"})
                  THEN "double " \o node.repr ELSE node.repr]
    ELSE IF node.vtype = "NoneType"
    THEN [self |-> self,
          val |-> "null ; Representing Python None as null pointer or in void context"]
    ELSE [self |-> self, val |-> "; Unhandled Constant: " \o node.repr]

LLVMIRGenerator_visit_Name(self, node) ==
    IF node.ctx = "Load"
    THEN [self |-> self, val |-> "%" \o node.id \o " ; Placeholder for loaded variable"]
    ELSE [self |-> self, val |-> "; Unhandled Name context for " \o node.id]

\* The statements of a Module and of a FunctionDef are visited one by one by
\* the actions below; LLVMIRGenerator_visit is NodeVisitor.visit on every
\* other node (a FunctionDef is a statement, never part of an expression).
RECURSIVE LLVMIRGenerator_visit(_, _)
RECURSIVE LLVMIRGenerator_visit_each(_, _)

\* for child in nodes: self.visit(child)
LLVMIRGenerator_visit_each(self, nodes) ==
    IF nodes = <<>> THEN self
    ELSE LLVMIRGenerator_visit_each(
            LLVMIRGenerator_visit(self, Head(nodes)).self, Tail(nodes))

\* generic_visit: super().generic_visit(node), which returns None
LLVMIRGenerator_generic_visit(self, node) ==
    [self |-> LLVMIRGenerator_visit_each(self, ChildNodes(node)), val |-> PyNone]

\* visit_Call, print() with no arguments
PrintNoArgs(self) ==
    LET newline_char_name == "global_newline_for_empty_print"
        py_newline_str == <<10>>
        newline_llvm_len == Len(encode_utf8(py_newline_str)) + 1
        newline_def == CallGlobalDef(newline_char_name, newline_llvm_len,
                                     escape_llvm_string(py_newline_str))
        printf_call == "  call i32 @printf("
                          \o GEP(newline_llvm_len, newline_char_name) \o ")"
        s1 == IF IsDefined(self, newline_def) THEN self
              ELSE AppendGlobal(self, newline_def)
    IN [self |-> AppendBody(s1, printf_call), val |-> printf_call]

\* a print("string literal") that interns the literal as it is
PrintStringLiteral_NoNewline(self, node) ==
    LET temp_ast_node == StrConstant(node.args[1].sval)
        r == LLVMIRGenerator_visit(self, temp_ast_node)
        printf_call == "  call i32 @printf(" \o r.val \o ")"
    IN [self |-> AppendBody(r.self, printf_call), val |-> printf_call]

\* visit_Call, print("string literal")
PrintStringLiteral(self, node) ==
    LET string_with_newline == node.args[1].sval \o <<10>>
        temp_ast_node == StrConstant(string_with_newline)
        r == LLVMIRGenerator_visit(self, temp_ast_node)
        printf_call == "  call i32 @printf(" \o r.val \o ")"
    IN [self |-> AppendBody(r.self, printf_call), val |-> printf_call]

\* visit_Call, any other print call: the "%s\n" format constant
PrintFormat(self, node) ==
    LET format_str_content_py == <<37, 115, 10>>
        format_name == "fmt_" \o ToString(self.block_counter)
        format_str_llvm_len == Len(encode_utf8(format_str_content_py)) + 1
        format_str_def == CallGlobalDef(format_name, format_str_llvm_len,
                                        escape_llvm_string(format_str_content_py))
        s1 == IF IsDefined(self, format_str_def) THEN self
              ELSE [AppendGlobal(self, format_str_def)
                        EXCEPT !.block_counter = self.block_counter + 1]
        arg == LLVMIRGenerator_visit(s1, node.args[1])
        printf_call == "  call i32 @printf("
                          \o GEP(format_str_llvm_len, format_name)
                          \o ", " \o arg.val \o ")"
    IN [self |-> AppendBody(arg.self, printf_call), val |-> printf_call]

LLVMIRGenerator_visit_Call(self, node) ==
    IF node.func.kind = "Name" /\ node.func.id = "print"
    THEN IF node.args = <<>> THEN PrintNoArgs(self)
         ELSE IF Len(node.args) = 1 /\ IsStrConstant(node.args[1])
         THEN PrintStringLiteral(self, node)
         ELSE PrintFormat(self, node)
    ELSE IF node.func.kind = "Name"
    THEN [self |-> AppendBody(self,
                     "  ; Placeholder for call to function @" \o node.func.id),
          val |-> "%call_result_placeholder_for_" \o node.func.id
                     \o " ; Placeholder return value for " \o node.func.id]
    ELSE LET unhandled_call_msg ==
                "; Call to unhandled complex callable (e.g., attribute access, subscript)"
         IN [self |-> AppendBody(self, "  " \o unhandled_call_msg),
             val |-> unhandled_call_msg]

LLVMIRGenerator_visit_Return(self, node) ==
    IF node.value # NoneNode
    THEN LET r == LLVMIRGenerator_visit(self, node.value)
             ret_instr ==
                 IF r.self.current_function_name = "main"
                 THEN "  ret i32 " \o r.val
                 ELSE "  ret void ; Placeholder for non-main return, value: " \o r.val
         IN [self |-> AppendBody(r.self, ret_instr), val |-> PyNone]
    ELSE IF self.current_function_name = "main"
    THEN [self |-> AppendBody(self, "  ret i32 0"), val |-> PyNone]
    ELSE [self |-> AppendBody(self, "  ret void"), val |-> PyNone]

\* llvm_return_type in visit_FunctionDef
FunctionReturnType(node) ==
    IF node.name = "main" THEN "i32"
    ELSE IF node.returns # NoneNode THEN map_ast_annotation_to_llvm(node.returns)
    ELSE "void"

\* visit_FunctionDef up to its loop over node.body
visit_FunctionDef_enter(self, node) ==
    [self EXCEPT !.current_function_name = node.name,
                 !.current_function_body_code = <<"entry:">>]

IsTerminatorLine(line) ==
    LET last_line == Strip(line) IN
        \/ StartsWith(last_line, "ret ")
        \/ StartsWith(last_line, "br ")
        \/ StartsWith(last_line, "unreachable")

\* a test that takes every body for terminated
LastInstrIsTerminator_Always(body_code) == TRUE

\* last_instr_is_terminator in visit_FunctionDef
LastInstrIsTerminator(body_code) ==
    /\ Len(body_code) > 1
    /\ IsTerminatorLine(body_code[Len(body_code)])

\* the terminator visit_FunctionDef appends when the body has none
DefaultTerminator(node) ==
    IF node.name = "main" THEN "  ret i32 0"
    ELSE IF FunctionReturnType(node) = "void" THEN "  ret void"
    ELSE "  ret " \o FunctionReturnType(node) \o " zeroinitializer"

\* visit_FunctionDef after its loop over node.body
visit_FunctionDef_exit(self, node) ==
    LET func_signature_str ==
            "define " \o FunctionReturnType(node) \o " @" \o node.name \o "() {"
        s2 == IF LastInstrIsTerminator(self.current_function_body_code) THEN self
              ELSE AppendBody(self, DefaultTerminator(node))
        current_full_function_code_lines ==
            <<func_signature_str>> \o s2.current_function_body_code \o <<"}">>
    IN [s2 EXCEPT
            !.all_function_definitions_code =
                s2.all_function_definitions_code \o current_full_function_code_lines,
            !.current_function_name = PyNone,
            !.current_function_body_code = <<>>]

\* NodeVisitor.visit: dispatch on the node's class
LLVMIRGenerator_visit(self, node) ==
    CASE node.kind = "Constant" -> LLVMIRGenerator_visit_Constant(self, node)
      [] node.kind = "Call" -> LLVMIRGenerator_visit_Call(self, node)
      [] node.kind = "Return" -> LLVMIRGenerator_visit_Return(self, node)
      [] node.kind = "Name" -> LLVMIRGenerator_visit_Name(self, node)
      [] OTHER -> LLVMIRGenerator_generic_visit(self, node)

\* first_node_is_docstring in visit_Module
first_node_is_docstring(node) ==
    node.body # <<>> /\ IsDocstringStmt(node.body[1])

\* whether the loop of visit_Module (at i = 1) or of visit_FunctionDef (at any
\* i) skips node.body[i] without visiting it
SkipsStatement(node, i) ==
    IF node.kind = "Module" THEN i = 1 /\ first_node_is_docstring(node)
    ELSE IsDocstringStmt(node.body[i])

get_llvm_ir(self) ==
    LET full_code_lines ==
            self.module_prefix_code
                \o (IF self.global_definitions # <<>> THEN <<"">> ELSE <<>>)
                \o self.global_definitions
                \o (IF self.all_function_definitions_code # <<>>
                    THEN <<"">> ELSE <<>>)
                \o self.all_function_definitions_code
    IN Join("\n", full_code_lines)

(***************************************************************************)
(* The bounded family of program trees: one function built from every      *)
(* sequence of 1..MaxBody statements, alone or with a statement before it  *)
(* and after it at module level.                                           *)
(***************************************************************************)
\* "H" and e with an acute accent: two characters, three UTF-8 bytes
Greeting == <<72, 233>>

\* "d"
DocText == <<100>>

PrintCall(args) == Expr(Call(Name("print"), args))

\* def g() -> None: print()      (a definition nested in a function body)
NestedDef == FunctionDef("g", NoneConstant, <<PrintCall(<<>>)>>)

\* the statements a function body is built from
BodyStmts ==
    {PrintCall(<<>>),
     PrintCall(<<StrConstant(Greeting)>>),
     PrintCall(<<Name("x")>>),
     PrintCall(<<StrConstant(Greeting), Name("x")>>),
     Return(NoneNode),
     Return(IntConstant(0)),
     Expr(StrConstant(DocText)),
     Expr(Name("x")),
     Expr(Call(Name("foo"), <<>>)),
     NestedDef}

RECURSIVE SeqsOfLen(_, _)
SeqsOfLen(S, n) ==
    IF n = 0 THEN {<<>>}
    ELSE {<<x>> \o t : x \in S, t \in SeqsOfLen(S, n - 1)}

Bodies == UNION {SeqsOfLen(BodyStmts, n) : n \in 1..MaxBody}

\* name and return annotation of the function
Headers ==
    {<<"main", Name("int")>>,
     <<"f", NoneConstant>>,
     <<"f", Name("int")>>,
     <<"f", Name("str")>>,
     <<"f", NoneNode>>}

FunctionDefs == {FunctionDef(h[1], h[2], b) : h \in Headers, b \in Bodies}

\* what may precede the function at module level: nothing, a module docstring
BeforeStmts == {<<>>, <<Expr(StrConstant(DocText))>>}

\* what may follow it: nothing, a second function, a call of an undefined
\* function, a float, a bool, a string
AfterStmts ==
    {<<>>,
     <<FunctionDef("h", NoneConstant, <<PrintCall(<<>>)>>)>>,
     <<Expr(Call(Name("foo"), <<>>))>>,
     <<Expr(OtherConstant("float", "1.5"))>>,
     <<Expr(OtherConstant("bool", "True"))>>,
     <<Expr(StrConstant(DocText))>>}

ProgramTrees ==
    {Module(b \o <<f>> \o a) : b \in BeforeStmts, f \in FunctionDefs, a \in AfterStmts}

(***************************************************************************)
(* The state.  Under Spec: one call of MoreliaCompiler.compile_file or     *)
(* compile_to_llvm (compiler.py).  Under EmitterSpec: LLVMIRGenerator used *)
(* directly, two instances one after the other on the same tree.           *)
(***************************************************************************)
VARIABLES
    op,            \* the operation called
    pc,            \* the position in it
    source,        \* ast.parse(source): the tree as parsed
    ast_module,    \* the tree the passes walk (pre-processed in place)
    type_checker,  \* the TypeChecker instance, once constructed
    idx,           \* check pass: 1-based position in the module's body
    visitor,       \* the LLVMIRGenerator instance the name visitor is bound to
    frames,        \* emit pass: the active visit_Module / visit_FunctionDef
                   \* calls, innermost last, each with the position of its loop
    llvm_ir_code,  \* the rendered IR, once get_llvm_ir has run
    output_file,   \* the file at output_path
    outcome,       \* how the call ended
    message,       \* str(e) of the exception raised
    instance,      \* which LLVMIRGenerator instance is the current one
    previous_ir    \* the IR the first instance rendered

check_vars == <<type_checker, idx>>

result_vars == <<output_file, outcome, message>>

history_vars == <<instance, previous_ir>>

vars == <<op, pc, source, ast_module, type_checker, idx, visitor, frames,
          llvm_ir_code, output_file, outcome, message, instance, previous_ir>>

Unbound == [kind |-> "Unbound"]
NoFile == [kind |-> "NoFile"]
File(text) == [kind |-> "File", text |-> text]

Frame(node, next) == [node |-> node, next |-> next]

\* the innermost active call and the statement its loop is at
TopFrame == frames[Len(frames)]
AtStatement == frames # <<>> /\ TopFrame.next <= Len(TopFrame.node.body)
CurrentStmt == TopFrame.node.body[TopFrame.next]

\* the loop of the innermost call moves on to its next statement
Advance(fs) == [fs EXCEPT ![Len(fs)].next = fs[Len(fs)].next + 1]

Init ==
    /\ op \in {"compile_file", "compile_to_llvm"}
    /\ source \in ProgramTrees
    /\ pc = "parse"
    /\ ast_module = Unbound
    /\ type_checker = Unbound
    /\ idx = 0
    /\ visitor = Unbound
    /\ frames = <<>>
    /\ llvm_ir_code = ""
    /\ output_file = NoFile
    /\ outcome = "running"
    /\ message = ""
    /\ instance = "first"
    /\ previous_ir = ""

\* ast_module = ast.parse(source), then the loop over ast.walk(ast_module)
ParseAndPreprocess ==
    /\ pc = "parse"
    /\ ast_module' = PreprocessAnnotations(source)
    /\ pc' = "check"
    /\ UNCHANGED <<op, source, check_vars, visitor, frames, llvm_ir_code,
                   result_vars, history_vars>>

\* type_checker = TypeChecker(); type_checker.check(ast_module) begins:
\* self.visit(node) on the Module is generic_visit, a loop over its body
BeginCheck ==
    /\ pc = "check"
    /\ type_checker' = TypeChecker__init__
    /\ idx' = 1
    /\ pc' = "checking"
    /\ UNCHANGED <<op, source, ast_module, visitor, frames, llvm_ir_code,
                   result_vars, history_vars>>

\* one top-level statement of the check pass
CheckStatement ==
    /\ pc = "checking"
    /\ idx <= Len(ast_module.body)
    /\ type_checker' = TypeChecker_visit(type_checker, ast_module.body[idx])
    /\ idx' = idx + 1
    /\ UNCHANGED <<op, pc, source, ast_module, visitor, frames, llvm_ir_code,
                   result_vars, history_vars>>

\* check() returned False: raise TypeError(...)
RaiseTypeError ==
    /\ pc = "checking"
    /\ idx > Len(ast_module.body)
    /\ ~TypeChecker_check_result(type_checker)
    /\ outcome' = "TypeError"
    /\ message' = "Type checking failed:\n" \o Join("\n", type_checker.errors)
    /\ pc' = "done"
    /\ UNCHANGED <<op, source, ast_module, check_vars, visitor, frames,
                   llvm_ir_code, output_file, history_vars>>

\* check() returned True: visitor = LLVMIRGenerator(); visitor.visit(ast_module)
\* enters visit_Module
BeginEmit ==
    /\ pc = "checking"
    /\ idx > Len(ast_module.body)
    /\ TypeChecker_check_result(type_checker)
    /\ visitor' = LLVMIRGenerator__init__
    /\ frames' = <<Frame(ast_module, 1)>>
    /\ pc' = "emitting"
    /\ UNCHANGED <<op, source, ast_module, check_vars, llvm_ir_code, result_vars,
                   history_vars>>

\* the loop of visit_Module or visit_FunctionDef skips a docstring statement
SkipDocstring ==
    /\ pc = "emitting"
    /\ AtStatement
    /\ SkipsStatement(TopFrame.node, TopFrame.next)
    /\ frames' = Advance(frames)
    /\ UNCHANGED <<op, pc, source, ast_module, check_vars, visitor, llvm_ir_code,
                   result_vars, history_vars>>

\* self.visit(stmt) on a statement that is not a function definition
EmitStatement ==
    /\ pc = "emitting"
    /\ AtStatement
    /\ ~SkipsStatement(TopFrame.node, TopFrame.next)
    /\ CurrentStmt.kind # "FunctionDef"
    /\ visitor' = LLVMIRGenerator_visit(visitor, CurrentStmt).self
    /\ frames' = Advance(frames)
    /\ UNCHANGED <<op, pc, source, ast_module, check_vars, llvm_ir_code,
                   result_vars, history_vars>>

\* self.visit(stmt) on a function definition: visit_FunctionDef up to its loop
EnterFunctionDef ==
    /\ pc = "emitting"
    /\ AtStatement
    /\ ~SkipsStatement(TopFrame.node, TopFrame.next)
    /\ CurrentStmt.kind = "FunctionDef"
    /\ visitor' = visit_FunctionDef_enter(visitor, CurrentStmt)
    /\ frames' = Append(Advance(frames), Frame(CurrentStmt, 1))
    /\ UNCHANGED <<op, pc, source, ast_module, check_vars, llvm_ir_code,
                   result_vars, history_vars>>

\* the loop of visit_FunctionDef is over: terminator, assembly, return
ExitFunctionDef ==
    /\ pc = "emitting"
    /\ frames # <<>>
    /\ ~AtStatement
    /\ TopFrame.node.kind = "FunctionDef"
    /\ visitor' = visit_FunctionDef_exit(visitor, TopFrame.node)
    /\ frames' = SubSeq(frames, 1, Len(frames) - 1)
    /\ UNCHANGED <<op, pc, source, ast_module, check_vars, llvm_ir_code,
                   result_vars, history_vars>>

\* visit_Module is over: visitor.get_llvm_ir()
Serialize ==
    /\ pc = "emitting"
    /\ frames # <<>>
    /\ ~AtStatement
    /\ TopFrame.node.kind = "Module"
    /\ llvm_ir_code' = get_llvm_ir(visitor)
    /\ frames' = <<>>
    /\ pc' = "serialized"
    /\ UNCHANGED <<op, source, ast_module, check_vars, visitor, result_vars,
                   history_vars>>

\* compile_file: with open(output_path, 'w') as f: f.write(...); returns None
WriteOutputFile ==
    /\ pc = "serialized"
    /\ op = "compile_file"
    /\ output_file' = File(llvm_ir_code)
    /\ outcome' = "returned"
    /\ pc' = "done"
    /\ UNCHANGED <<op, source, ast_module, check_vars, visitor, frames,
                   llvm_ir_code, message, history_vars>>

\* compile_to_llvm: output_path.open(...) names a variable that is neither a
\* parameter, a local nor a global of compiler.py
OpenOutputPath ==
    /\ pc = "serialized"
    /\ op = "compile_to_llvm"
    /\ outcome' = "NameError"
    /\ message' = "name 'output_path' is not defined"
    /\ pc' = "done"
    /\ UNCHANGED <<op, source, ast_module, check_vars, visitor, frames,
                   llvm_ir_code, output_file, history_vars>>

Next ==
    \/ ParseAndPreprocess
    \/ BeginCheck
    \/ CheckStatement
    \/ RaiseTypeError
    \/ BeginEmit
    \/ SkipDocstring
    \/ EmitStatement
    \/ EnterFunctionDef
    \/ ExitFunctionDef
    \/ Serialize
    \/ WriteOutputFile
    \/ OpenOutputPath

Spec == Init /\ [][Next]_vars

(***************************************************************************)
(* LLVMIRGenerator used directly: visitor = LLVMIRGenerator();             *)
(* visitor.visit(tree); visitor.get_llvm_ir(), and then the same again     *)
(* with a second instance on the same tree.                                *)
(***************************************************************************)
EmitterInit ==
    /\ op = "LLVMIRGenerator"
    /\ source \in ProgramTrees
    /\ ast_module = source
    /\ pc = "construct"
    /\ type_checker = Unbound
    /\ idx = 0
    /\ visitor = Unbound
    /\ frames = <<>>
    /\ llvm_ir_code = ""
    /\ output_file = NoFile
    /\ outcome = "running"
    /\ message = ""
    /\ instance = "first"
    /\ previous_ir = ""

\* visitor = LLVMIRGenerator(); visitor.visit(tree) enters visit_Module
FirstInstance ==
    /\ op = "LLVMIRGenerator"
    /\ pc = "construct"
    /\ visitor' = LLVMIRGenerator__init__
    /\ frames' = <<Frame(ast_module, 1)>>
    /\ pc' = "emitting"
    /\ UNCHANGED <<op, source, ast_module, check_vars, llvm_ir_code, result_vars,
                   history_vars>>

\* a second instance that goes on counting where the first one stopped
SecondInstance_KeepsCounter ==
    /\ op = "LLVMIRGenerator"
    /\ pc = "serialized"
    /\ instance = "first"
    /\ instance' = "second"
    /\ previous_ir' = llvm_ir_code
    /\ visitor' = [LLVMIRGenerator__init__
                      EXCEPT !.block_counter = visitor.block_counter]
    /\ frames' = <<Frame(ast_module, 1)>>
    /\ llvm_ir_code' = ""
    /\ pc' = "emitting"
    /\ UNCHANGED <<op, source, ast_module, check_vars, result_vars>>

\* the same statements again: the name visitor is rebound to a new instance
SecondInstance ==
    /\ op = "LLVMIRGenerator"
    /\ pc = "serialized"
    /\ instance = "first"
    /\ instance' = "second"
    /\ previous_ir' = llvm_ir_code
    /\ visitor' = LLVMIRGenerator__init__
    /\ frames' = <<Frame(ast_module, 1)>>
    /\ llvm_ir_code' = ""
    /\ pc' = "emitting"
    /\ UNCHANGED <<op, source, ast_module, check_vars, result_vars>>

EmitterNext ==
    \/ FirstInstance
    \/ SkipDocstring
    \/ EmitStatement
    \/ EnterFunctionDef
    \/ ExitFunctionDef
    \/ Serialize
    \/ SecondInstance

EmitterSpec == EmitterInit /\ [][EmitterNext]_vars

(***************************************************************************)
(* LLVMIRGenerator.visit_Constant on one string constant, with the loop of *)
(* _escape_llvm_string taken one byte at a time.  source is the str,       *)
(* ast_module the Constant node, idx the position in the encoded bytes and *)
(* llvm_ir_code the local  escaped  of _escape_llvm_string.                *)
(***************************************************************************)
\* a lone surrogate: a str can hold it (the literal "\ud800"), UTF-8 cannot
LoneSurrogate == 55296

IsSurrogate(cp) == 55296 <= cp /\ cp <= 57343

\* the code points of the strings: every ASCII character but the grave
\* accent, the first and last code point of each longer UTF-8 form, a lone
\* surrogate
CodePoints ==
    ((0..127) \ {96})
        \cup {128, 233, 2047, 2048, 8364, 65535, 65536, 128512, 1114111}
        \cup {LoneSurrogate}

\* the characters longer strings are made of: "  \  newline  A  e-acute
MixedChars == {34, 92, 10, 65, 233}

EscaperStrings ==
    {<<c>> : c \in CodePoints}
        \cup UNION {SeqsOfLen(MixedChars, n) : n \in 0..MaxLen}
        \cup {<<65, LoneSurrogate>>}

\* str.encode('utf-8') raises UnicodeEncodeError on a surrogate
EncodeRaisesOn(s) == \E i \in DOMAIN s : IsSurrogate(s[i])

\* the 0-based position the UnicodeEncodeError names
FirstSurrogate(s) ==
    (CHOOSE i \in DOMAIN s :
        IsSurrogate(s[i]) /\ \A j \in 1..(i - 1) : ~IsSurrogate(s[j])) - 1

EscaperInit ==
    /\ op = "visit_Constant"
    /\ source \in EscaperStrings
    /\ ast_module = StrConstant(source)
    /\ pc = "visit"
    /\ type_checker = Unbound
    /\ idx = 0
    /\ visitor = LLVMIRGenerator__init__
    /\ frames = <<>>
    /\ llvm_ir_code = ""
    /\ output_file = NoFile
    /\ outcome = "running"
    /\ message = ""
    /\ instance = "first"
    /\ previous_ir = ""

\* visit_Constant: string_name = f"str_{self.block_counter}", counter += 1,
\* and the call of _escape_llvm_string(value)
BeginVisitConstant ==
    /\ op = "visit_Constant"
    /\ pc = "visit"
    /\ visitor' = [visitor EXCEPT !.block_counter = visitor.block_counter + 1]
    /\ llvm_ir_code' = ""
    /\ pc' = "encode"
    /\ UNCHANGED <<op, source, ast_module, check_vars, frames, result_vars,
                   history_vars>>

\* py_string.encode('utf-8') succeeds: the loop over the bytes begins
EncodeString ==
    /\ pc = "encode"
    /\ ~EncodeRaisesOn(source)
    /\ idx' = 1
    /\ pc' = "escaping"
    /\ UNCHANGED <<op, source, ast_module, type_checker, visitor, frames,
                   llvm_ir_code, result_vars, history_vars>>

\* py_string.encode('utf-8') raises
EncodeRaises ==
    /\ pc = "encode"
    /\ EncodeRaisesOn(source)
    /\ outcome' = "UnicodeEncodeError"
    /\ message' = "'utf-8' codec can't encode character '\\ud800' in position "
                     \o ToString(FirstSurrogate(source)) \o ": surrogates not allowed"
    /\ pc' = "done"
    /\ UNCHANGED <<op, source, ast_module, check_vars, visitor, frames,
                   llvm_ir_code, output_file, history_vars>>

\* one iteration of  for char_code in py_string.encode('utf-8')
EscapeNextByte ==
    /\ pc = "escaping"
    /\ idx <= Len(encode_utf8(source))
    /\ llvm_ir_code' = llvm_ir_code \o EscapeByte(encode_utf8(source)[idx])
    /\ idx' = idx + 1
    /\ UNCHANGED <<op, pc, source, ast_module, type_checker, visitor, frames,
                   result_vars, history_vars>>

\* return escaped
EscapeReturn ==
    /\ pc = "escaping"
    /\ idx > Len(encode_utf8(source))
    /\ pc' = "escaped"
    /\ UNCHANGED <<op, source, ast_module, check_vars, visitor, frames,
                   llvm_ir_code, result_vars, history_vars>>

\* the rest of visit_Constant: llvm_str_len, global_str_def and its append
\* (string_name was built from the counter before its increment)
InternConstant ==
    /\ pc = "escaped"
    /\ LET string_name == "str_" \o ToString(visitor.block_counter - 1)
           llvm_str_len == Len(encode_utf8(source)) + 1
       IN visitor' = AppendGlobal(visitor,
                        StringGlobalDef(string_name, llvm_str_len, llvm_ir_code))
    /\ pc' = "interned"
    /\ UNCHANGED <<op, source, ast_module, check_vars, frames, llvm_ir_code,
                   result_vars, history_vars>>

EscaperNext ==
    \/ BeginVisitConstant
    \/ EncodeString
    \/ EncodeRaises
    \/ EscapeNextByte
    \/ EscapeReturn
    \/ InternConstant

EscaperSpec == EscaperInit /\ [][EscaperNext]_vars

(***************************************************************************)
(* Helpers of the properties.                                              *)
(***************************************************************************)
Range(seq) == {seq[i] : i \in DOMAIN seq}

IsPrefix(s, t) == Len(s) <= Len(t) /\ SubSeq(t, 1, Len(s)) = s

EndsWith(s, p) == Len(s) >= Len(p) /\ SubSeq(s, Len(s) - Len(p) + 1, Len(s)) = p

\* the check pass is over and check() has returned
CheckPassOver == pc \in {"emitting", "serialized", "done"}

\* the module's function definitions whose body the check pass walks: the
\* return annotation is one the checker accepts
CheckedFunctions ==
    {n \in Range(ast_module.body) :
        /\ n.kind = "FunctionDef"
        /\ n.returns \in {Name("None"), Name("int")}}

(***************************************************************************)
(* The properties.                                                         *)
(***************************************************************************)

\* C1: in compile_file and in compile_to_llvm alike, when the checker's error
\* list is not empty once the check pass is over, the call ends in a TypeError
\* whose message is the headline "Type checking failed:" and then every
\* collected error, in order, joined by newlines; no LLVMIRGenerator has been
\* constructed, no IR rendered and no output file written.  An emitter exists
\* only after the check pass has walked the whole module, and the output file
\* only after the emitter has rendered the IR.
C1_CheckFailureStopsCompilation ==
    /\ (CheckPassOver /\ type_checker.errors # <<>>) =>
          /\ pc = "done"
          /\ outcome = "TypeError"
          /\ message = "Type checking failed:\n" \o Join("\n", type_checker.errors)
          /\ visitor = Unbound
          /\ frames = <<>>
          /\ llvm_ir_code = ""
          /\ output_file = NoFile
    /\ visitor # Unbound =>
          (type_checker # Unbound /\ idx = Len(ast_module.body) + 1)
    /\ output_file # NoFile =>
          (visitor # Unbound /\ pc = "done" /\ output_file = File(get_llvm_ir(visitor)))

\* a compile_file call that ended in a TypeError carrying two errors
C1_Witness ==
    /\ op = "compile_file"
    /\ pc = "done"
    /\ outcome = "TypeError"
    /\ Len(type_checker.errors) = 2
    /\ visitor = Unbound

\* C2: compile_to_llvm on a source that passes the check returns normally
\* (with the rendered IR); it ends in an error only when validation failed.
C2_CompileToLlvmReturns ==
    (op = "compile_to_llvm" /\ pc = "done") =>
        IF type_checker.errors = <<>>
        THEN outcome = "returned"
        ELSE outcome = "TypeError"

\* C3: when a checked function's body calls print with the undefined name x as
\* an argument, the check pass reports "Undefined variable: x" and the emitter
\* is never constructed.
C3_PrintArgumentsChecked ==
    (/\ CheckPassOver
     /\ \E f \in CheckedFunctions :
            \E s \in Range(f.body) :
                /\ s.kind = "Expr"
                /\ s.value.kind = "Call"
                /\ s.value.func = Name("print")
                /\ Name("x") \in Range(s.value.args))
    => (/\ "Undefined variable: x" \in Range(type_checker.errors)
        /\ visitor = Unbound)

\* the characters of a global's name, and the decimal digits
IdentifierChars ==
    LET alphabet == "abcdefghijklmnopqrstuvwxyzABCDEFGHIJKLMNOPQRSTUVWXYZ0123456789_"
    IN {SubSeq(alphabet, k, k) : k \in 1..Len(alphabet)}

DecimalDigits == {SubSeq("0123456789", k, k) : k \in 1..10}

AllCharsIn(text, chars) == \A k \in 1..Len(text) : SubSeq(text, k, k) \in chars

HasAt(text, i, part) ==
    i >= 1 /\ i + Len(part) - 1 <= Len(text) /\ SubSeq(text, i, i + Len(part) - 1) = part

\* line is  @<name> = private unnamed_addr constant [<N> x i8] c"<bytes>\00", align 1
\* with a name of identifier characters, a decimal N, and no double quote in <bytes>
WellFormedGlobalDef(line) ==
    LET intro == " = private unnamed_addr constant ["
        open == " x i8] c\""
        close == "\\00\", align 1"
    IN /\ HasAt(line, 1, "@")
       /\ \E i \in 3..Len(line) :
            /\ HasAt(line, i, intro)
            /\ AllCharsIn(SubSeq(line, 2, i - 1), IdentifierChars)
            /\ \E j \in (i + Len(intro) + 1)..Len(line) :
                 /\ HasAt(line, j, open)
                 /\ AllCharsIn(SubSeq(line, i + Len(intro), j - 1), DecimalDigits)
                 /\ j + Len(open) <= Len(line) - Len(close) + 1
                 /\ EndsWith(line, close)
                 /\ LET bytes == SubSeq(line, j + Len(open), Len(line) - Len(close))
                    IN /\ \A k \in 1..Len(bytes) : SubSeq(bytes, k, k) # "\""
                       /\ ~EndsWith(bytes, "\\")

\* C4: every entry of the emitter's global_definitions buffer has the form
\* @<name> = private unnamed_addr constant [<N> x i8] c"<bytes>\00", align 1,
\* whichever of visit_Constant and visit_Call appended it.
C4_GlobalDefinitionsWellFormed ==
    visitor # Unbound =>
        \A gd \in Range(visitor.global_definitions) : WellFormedGlobalDef(gd)

\* the statement the innermost loop of the emit pass is about to visit
Visiting(stmt) ==
    /\ pc = "emitting"
    /\ AtStatement
    /\ ~SkipsStatement(TopFrame.node, TopFrame.next)
    /\ CurrentStmt = stmt

\* the number of entries of seq that start with prefix
RECURSIVE CountStartingWith(_, _)
CountStartingWith(seq, prefix) ==
    IF seq = <<>> THEN 0
    ELSE (IF StartsWith(Head(seq), prefix) THEN 1 ELSE 0)
            + CountStartingWith(Tail(seq), prefix)

NewlineGlobalDeclarations(self) ==
    CountStartingWith(self.global_definitions, "@global_newline_for_empty_print = ")

NewlinePrintfCall ==
    "  call i32 @printf(i8* getelementptr inbounds ([2 x i8], [2 x i8]* "
        \o "@global_newline_for_empty_print, i32 0, i32 0))"

\* C5: the global_definitions buffer never holds more than one declaration of
\* @global_newline_for_empty_print; visiting a print() statement leaves exactly
\* one there (appended by the first such visit, found and left alone by every
\* later one, the rest of the buffer untouched) and appends to the current
\* function's body exactly one line, the printf call on that global's address.
C5_NewlineGlobalInternedOnce ==
    [][/\ visitor' # Unbound => NewlineGlobalDeclarations(visitor') <= 1
       /\ Visiting(PrintCall(<<>>)) =>
            /\ NewlineGlobalDeclarations(visitor') = 1
            /\ IF NewlineGlobalDeclarations(visitor) = 1
               THEN visitor'.global_definitions = visitor.global_definitions
               ELSE /\ Len(visitor'.global_definitions)
                          = Len(visitor.global_definitions) + 1
                    /\ IsPrefix(visitor.global_definitions,
                                visitor'.global_definitions)
            /\ visitor'.current_function_body_code
                  = Append(visitor.current_function_body_code, NewlinePrintfCall)
            /\ visitor'.block_counter = visitor.block_counter
            /\ visitor'.all_function_definitions_code
                  = visitor.all_function_definitions_code]_vars

\* a rendered program with three print() calls in two functions and one
\* declaration of the newline global
C5_Witness ==
    /\ pc = "serialized"
    /\ NewlineGlobalDeclarations(visitor) = 1
    /\ Len(visitor.global_definitions) = 1
    /\ Len(SelectSeq(visitor.all_function_definitions_code,
                     LAMBDA line : line = NewlinePrintfCall)) = 3

\* the module's function definitions that have no return annotation
UnannotatedFunctions ==
    {n \in Range(ast_module.body) : n.kind = "FunctionDef" /\ n.returns = NoneNode}

\* the check pass is at a function definition that has no return annotation
CheckingUnannotated ==
    /\ pc = "checking"
    /\ idx <= Len(ast_module.body)
    /\ ast_module.body[idx] \in UnannotatedFunctions

\* C6: the check pass's visit of a function definition without a return
\* annotation appends exactly one error, "Function <name> lacks return type
\* annotation", and nothing for the statements of its body; once the pass is
\* over on a module with such a function, check() is false, the call has ended
\* in a TypeError and no LLVMIRGenerator was constructed.
C6_MissingAnnotationOneError ==
    [][/\ CheckingUnannotated =>
            type_checker'.errors =
                Append(type_checker.errors,
                       "Function " \o ast_module.body[idx].name
                           \o " lacks return type annotation")
       /\ (CheckPassOver /\ UnannotatedFunctions # {})' =>
            /\ ~TypeChecker_check_result(type_checker')
            /\ outcome' = "TypeError"
            /\ visitor' = Unbound]_vars

\* def f(): print(x); x   followed by a call of the undefined foo: the call
\* ended with the error of f's header and the two of foo(), none for x
C6_Witness ==
    /\ pc = "done"
    /\ outcome = "TypeError"
    /\ \E n \in UnannotatedFunctions :
          n.body = <<PrintCall(<<Name("x")>>), Expr(Name("x"))>>
    /\ type_checker.errors =
          <<"Function f lacks return type annotation",
            "Undefined function: foo",
            "Undefined variable: foo">>
    /\ visitor = Unbound

\* the lines expected for print("H<e acute>") when the block counter is k: the
\* literal and a newline are 2 + 2 UTF-8 bytes, 5 with the terminating zero
GreetingDeclaration(k) ==
    "@str_" \o ToString(k)
        \o " = private unnamed_addr constant [5 x i8] c\"H\\C3\\A9\\0A\\00\", align 1"

GreetingPrintfCall(k) ==
    "  call i32 @printf(i8* getelementptr inbounds ([5 x i8], [5 x i8]* @str_"
        \o ToString(k) \o ", i32 0, i32 0))"

PrintGreeting == PrintCall(<<StrConstant(Greeting)>>)

\* visit_FunctionDef is about to leave the loop over the body of main, whose
\* last statement is print("H<e acute>")
LeavingMainAfterGreeting ==
    /\ pc = "emitting"
    /\ frames # <<>>
    /\ ~AtStatement
    /\ TopFrame.node.kind = "FunctionDef"
    /\ TopFrame.node.name = "main"
    /\ TopFrame.node.body[Len(TopFrame.node.body)] = PrintGreeting

\* C7: visiting print("H<e acute>") in a function body with the block counter
\* at k appends to global_definitions one declaration, of @str_<k>, whose bytes
\* are the literal's UTF-8 bytes and a newline and whose length is their number
\* plus the terminating zero; the counter becomes k + 1; the function's body
\* gains one line, the printf call on the address of @str_<k> alone.  When that
\* statement is the last of main, the function is rendered as its signature,
\* its body, "  ret i32 0" and the closing brace.
C7_PrintStringLiteral ==
    [][/\ Visiting(PrintGreeting) =>
            LET k == visitor.block_counter IN
            /\ TopFrame.node.kind = "FunctionDef"
            /\ visitor'.global_definitions =
                  Append(visitor.global_definitions, GreetingDeclaration(k))
            /\ visitor'.block_counter = k + 1
            /\ visitor'.current_function_body_code =
                  Append(visitor.current_function_body_code, GreetingPrintfCall(k))
            /\ visitor'.all_function_definitions_code =
                  visitor.all_function_definitions_code
       /\ LeavingMainAfterGreeting =>
            LET body == visitor.current_function_body_code IN
            /\ body # <<>>
            /\ body[Len(body)] = GreetingPrintfCall(visitor.block_counter - 1)
            /\ visitor'.all_function_definitions_code =
                  visitor.all_function_definitions_code
                      \o <<"define i32 @main() {">> \o body
                      \o <<"  ret i32 0", "}">>]_vars

\* def main() -> int: print("H<e acute>")   rendered
C7_Witness ==
    /\ pc = "serialized"
    /\ llvm_ir_code =
          "declare i32 @printf(i8*, ...)\n\n"
          \o "@str_0 = private unnamed_addr constant [5 x i8] c\"H\\C3\\A9\\0A\\00\", align 1\n\n"
          \o "define i32 @main() {\nentry:\n"
          \o "  call i32 @printf(i8* getelementptr inbounds ([5 x i8], [5 x i8]* @str_0, i32 0, i32 0))\n"
          \o "  ret i32 0\n}"

\* C8: each LLVMIRGenerator instance starts with block counter 0 and empty
\* buffers whatever the instance before it did; during a walk global_definitions
\* and all_function_definitions_code only grow at their end; and the IR the
\* second instance renders for the tree is, character for character, the IR the
\* first instance rendered for it.
C8_EmissionDeterministic ==
    [][/\ (pc # "emitting" /\ pc' = "emitting") =>
            /\ visitor'.block_counter = 0
            /\ visitor'.global_definitions = <<>>
            /\ visitor'.all_function_definitions_code = <<>>
            /\ visitor'.current_function_body_code = <<>>
            /\ visitor'.module_prefix_code = <<"declare i32 @printf(i8*, ...)">>
       /\ (pc = "emitting" /\ pc' = "emitting") =>
            /\ IsPrefix(visitor.global_definitions, visitor'.global_definitions)
            /\ IsPrefix(visitor.all_function_definitions_code,
                        visitor'.all_function_definitions_code)
            /\ visitor'.block_counter >= visitor.block_counter
       /\ (instance' = "second" /\ pc' = "serialized") =>
            llvm_ir_code' = previous_ir']_vars

\* the second instance has rendered a program with two interned globals, as
\* the first did
C8_Witness ==
    /\ instance = "second"
    /\ pc = "serialized"
    /\ llvm_ir_code = previous_ir
    /\ Len(visitor.global_definitions) = 2
    /\ visitor.block_counter = 2

\* visit_FunctionDef is about to leave the loop over the body of its node
LeavingFunctionDef ==
    /\ pc = "emitting"
    /\ frames # <<>>
    /\ ~AtStatement
    /\ TopFrame.node.kind = "FunctionDef"

\* the walk of the body did not end on a terminator
WalkEndedOpen(body_code) ==
    \/ body_code = <<>>
    \/ /\ ~StartsWith(Strip(body_code[Len(body_code)]), "ret ")
       /\ ~StartsWith(Strip(body_code[Len(body_code)]), "br ")
       /\ ~StartsWith(Strip(body_code[Len(body_code)]), "unreachable")

\* the terminator expected of a function by its name and return annotation
ExpectedTerminator(node) ==
    IF node.name = "main" THEN "  ret i32 0"
    ELSE IF node.returns = Name("int") THEN "  ret i32 zeroinitializer"
    ELSE IF node.returns = Name("str") THEN "  ret i8* zeroinitializer"
    ELSE "  ret void"

\* every closing brace of code follows a line that is a terminator
BlocksTerminated(code) ==
    \A i \in DOMAIN code :
        code[i] = "}" =>
            /\ i > 1
            /\ \/ StartsWith(Strip(code[i - 1]), "ret ")
               \/ StartsWith(Strip(code[i - 1]), "br ")
               \/ StartsWith(Strip(code[i - 1]), "unreachable")

\* C9: in all_function_definitions_code the line before every closing brace
\* starts with "ret ", "br " or "unreachable"; when visit_FunctionDef leaves a
\* body whose walk did not end on such a line, the function is rendered as its
\* signature line, the body, the terminator of its type ("  ret i32 0" for
\* main, "  ret void" for a void function, "  ret <type> zeroinitializer"
\* otherwise) and the closing brace.
C9_BlocksEndInTerminator ==
    [][/\ visitor' # Unbound => BlocksTerminated(visitor'.all_function_definitions_code)
       /\ LeavingFunctionDef =>
            LET code == visitor.all_function_definitions_code
                code_after == visitor'.all_function_definitions_code
                body == visitor.current_function_body_code
            IN /\ IsPrefix(code, code_after)
               /\ code_after[Len(code_after)] = "}"
               /\ WalkEndedOpen(body) =>
                    /\ Len(code_after) = Len(code) + Len(body) + 3
                    /\ SubSeq(code_after, Len(code) + 2, Len(code) + Len(body) + 1)
                          = body
                    /\ code_after[Len(code_after) - 1]
                          = ExpectedTerminator(TopFrame.node)]_vars

\* def f() -> str: def g() -> None: print()   rendered: g's block ends in the
\* terminator of a void function, f's effective body is empty and ends in the
\* zero-valued return of its type
C9_Witness ==
    /\ pc = "serialized"
    /\ visitor.all_function_definitions_code =
          <<"define void @g() {", "entry:", NewlinePrintfCall, "  ret void", "}",
            "define i8* @f() {", "  ret i8* zeroinitializer", "}">>

\* the errors a checker with no error yet reports for one statement
ErrorsOf(stmt) == TypeChecker_visit(TypeChecker__init__, stmt).errors

RECURSIVE ErrorsOfEach(_)
ErrorsOfEach(stmts) ==
    IF stmts = <<>> THEN <<>>
    ELSE ErrorsOf(Head(stmts)) \o ErrorsOfEach(Tail(stmts))

\* C10: the check pass visits every top-level statement whatever errors it has
\* collected: it ends only after the last one.  Each visit appends its errors
\* after the errors of the statements before it and removes none, and the
\* errors of a function whose annotation is accepted are those of its body
\* statements, in order, each as if it were checked alone.  The pass goes on to
\* the emitter exactly when the list is empty at its end, and ends in a
\* TypeError exactly when it is not.
C10_ErrorsAggregated ==
    [][/\ (type_checker # Unbound) =>
            IsPrefix(type_checker.errors, type_checker'.errors)
       /\ (pc = "checking" /\ idx <= Len(ast_module.body)) =>
            LET stmt == ast_module.body[idx] IN
            /\ pc' = "checking"
            /\ idx' = idx + 1
            /\ type_checker'.errors = type_checker.errors \o ErrorsOf(stmt)
            /\ stmt \in CheckedFunctions =>
                  type_checker'.errors = type_checker.errors \o ErrorsOfEach(stmt.body)
       /\ (pc = "checking" /\ pc' # "checking") =>
            /\ idx = Len(ast_module.body) + 1
            /\ type_checker' = type_checker
            /\ (pc' = "emitting") <=> (type_checker.errors = <<>>)
            /\ (pc' = "done" /\ outcome' = "TypeError")
                  <=> (type_checker.errors # <<>>)]_vars

\* def main() -> int: x; foo()   followed by foo() at module level: the pass
\* ended with the error of x, the two of the first foo() and the two of the
\* second, in that order
C10_Witness ==
    /\ pc = "done"
    /\ outcome = "TypeError"
    /\ Len(ast_module.body) = 2
    /\ ast_module.body[1] =
          FunctionDef("main", Name("int"),
                      <<Expr(Name("x")), Expr(Call(Name("foo"), <<>>))>>)
    /\ type_checker.errors =
          <<"Undefined variable: x",
            "Undefined function: foo", "Undefined variable: foo",
            "Undefined function: foo", "Undefined variable: foo">>

\* the escape table as the contract gives it, for one byte
HexDigitOf(n) ==
    <<"0", "1", "2", "3", "4", "5", "6", "7", "8", "9",
      "A", "B", "C", "D", "E", "F">>[n + 1]

ExpectedEscape(b) ==
    CASE b = 92 -> "\\5C"
      [] b = 34 -> "\\22"
      [] b = 10 -> "\\0A"
      [] b = 13 -> "\\0D"
      [] b = 9 -> "\\09"
      [] b \notin {92, 34, 10, 13, 9} /\ (b < 32 \/ b > 126) ->
            "\\" \o HexDigitOf(b \div 16) \o HexDigitOf(b % 16)
      [] OTHER -> chr(b)

\* the number of bytes of the UTF-8 encoding of a str without surrogates
RECURSIVE ByteCount(_)
ByteCount(str) ==
    IF str = <<>> THEN 0
    ELSE (IF Head(str) < 128 THEN 1
          ELSE IF Head(str) < 2048 THEN 2
          ELSE IF Head(str) < 65536 THEN 3 ELSE 4) + ByteCount(Tail(str))

\* C11: the escaper has a result for every byte value 0..255 (the grave
\* accent, which a TLA+ string cannot hold, left aside): the five named
\* escapes, backslash and two upper-case hex digits for every other byte
\* outside 32..126, the character itself otherwise.  Each iteration of its loop
\* appends the escape of the current byte to what it has built, whatever the
\* bytes around it, and the loop ends after the last byte.  The length declared
\* for the interned constant is the number of encoded bytes plus one, however
\* many of them were escaped.
C11_EscaperTable ==
    [][/\ \A b \in (0..255) \ {96} :
            /\ EscapeByte(b) = ExpectedEscape(b)
            /\ Len(EscapeByte(b)) = (IF b \in 32..126 /\ b \notin {92, 34} THEN 1 ELSE 3)
       /\ (pc = "escaping" /\ idx <= Len(encode_utf8(source))) =>
            /\ pc' = "escaping"
            /\ idx' = idx + 1
            /\ llvm_ir_code' =
                  llvm_ir_code \o ExpectedEscape(encode_utf8(source)[idx])
       /\ pc' = "escaped" =>
            /\ idx' = ByteCount(source) + 1
            /\ Len(encode_utf8(source)) = ByteCount(source)
       /\ pc' = "interned" =>
            visitor'.global_definitions =
                <<"@str_0 = private unnamed_addr constant ["
                      \o ToString(ByteCount(source) + 1) \o " x i8] c\""
                      \o llvm_ir_code \o "\\00\", align 1">>]_vars

\* the constant made of a double quote and e-acute (three bytes, all of them
\* escaped, into nine characters) interned with length 4
C11_Witness ==
    /\ pc = "interned"
    /\ source = <<34, 233>>
    /\ llvm_ir_code = "\\22\\C3\\A9"
    /\ visitor.global_definitions =
          <<"@str_0 = private unnamed_addr constant [4 x i8] c\"\\22\\C3\\A9\\00\", align 1">>

\* the return annotations the annotation mapper has a type of their own for:
\* the none type, int and str
MappedAnnotations == {Name("None"), Name("int"), Name("str")}

\* C12: when the check pass visits a function whose return annotation names
\* the none type, int or str, it appends no error for the annotation and visits
\* the body: the errors it appends are those of the body statements, in order
\* (none, and check() true, when the body is valid).
C12_CheckerAcceptsMappedAnnotations ==
    [][(/\ pc = "checking"
        /\ idx <= Len(ast_module.body)
        /\ ast_module.body[idx].kind = "FunctionDef"
        /\ ast_module.body[idx].returns \in MappedAnnotations)
       => type_checker'.errors =
             type_checker.errors \o ErrorsOfEach(ast_module.body[idx].body)]_vars

\* the check pass is at an expression statement that is a constant
CheckingConstant ==
    /\ pc = "checking"
    /\ idx <= Len(ast_module.body)
    /\ ast_module.body[idx].kind = "Expr"
    /\ ast_module.body[idx].value.kind = "Constant"

\* C13: the check pass's visit of a constant appends nothing when the value is
\* a str, an int or None, and appends "Unsupported constant type: <type name>"
\* for a value of any other type, a bool and a float included.
C13_ConstantTypesChecked ==
    [][CheckingConstant =>
          LET vtype == ast_module.body[idx].value.vtype IN
          type_checker'.errors =
              IF vtype \in {"str", "int", "NoneType"}
              THEN type_checker.errors
              ELSE Append(type_checker.errors,
                          "Unsupported constant type: " \o vtype)]_vars

FormatGlobalDeclarations(self) ==
    CountStartingWith(self.global_definitions, "@fmt_")

\* the printf lines of the body being built that pass a format constant
FormatPrintfCalls(self) ==
    SelectSeq(self.current_function_body_code,
              LAMBDA line : StartsWith(line,
                  "  call i32 @printf(i8* getelementptr inbounds ([4 x i8], [4 x i8]* @fmt_"))

\* C14: however many print calls of the fallback shape the emitter has visited,
\* global_definitions holds at most one declaration of a format constant, and
\* the printf lines of those calls in a function's body all name the same one.
C14_FormatConstantShared ==
    visitor # Unbound =>
        /\ FormatGlobalDeclarations(visitor) <= 1
        /\ \A i, j \in DOMAIN FormatPrintfCalls(visitor) :
              SubSeq(FormatPrintfCalls(visitor)[i], 1, 74)
                  = SubSeq(FormatPrintfCalls(visitor)[j], 1, 74)

\* the loop of visit_Module or visit_FunctionDef is at the statement "d"
AtStringStatement ==
    /\ pc = "emitting"
    /\ AtStatement
    /\ CurrentStmt = Expr(StrConstant(DocText))

\* C15: in a function body as at module level, the emitter skips the string
\* statement "d" only when it is the first statement; at any later position it
\* visits it, which interns the constant @str_<k> for it.
C15_OnlyLeadingDocstringSkipped ==
    [][AtStringStatement =>
          IF TopFrame.next = 1
          THEN visitor' = visitor
          ELSE /\ visitor'.global_definitions =
                     Append(visitor.global_definitions,
                            "@str_" \o ToString(visitor.block_counter)
                                \o " = private unnamed_addr constant [2 x i8] c\"d\\00\", align 1")
               /\ visitor'.block_counter = visitor.block_counter + 1]_vars

\* line is a ret, br or unreachable instruction
IsControlTerminator(line) ==
    \/ StartsWith(Strip(line), "ret ")
    \/ StartsWith(Strip(line), "br ")
    \/ StartsWith(Strip(line), "unreachable")

\* C16: in all_function_definitions_code every terminator line is the last
\* line of its block, directly before the closing brace, so that a block holds
\* exactly one terminator and no line follows it.
C16_ExactlyOneTerminator ==
    visitor # Unbound =>
        LET code == visitor.all_function_definitions_code IN
        /\ \A i \in DOMAIN code :
              IsControlTerminator(code[i]) => (i < Len(code) /\ code[i + 1] = "}")
        /\ \A i \in DOMAIN code :
              code[i] = "}" => (i > 1 /\ IsControlTerminator(code[i - 1]))

\* the number of instruction lines the statements of a body produce for their
\* own function: one for each call and each return, none for a bare name, a
\* string statement or a nested definition (whose lines are its own block's)
RECURSIVE OwnLineCount(_)
OwnLineCount(stmts) ==
    IF stmts = <<>> THEN 0
    ELSE (IF \/ Head(stmts).kind = "Return"
             \/ (Head(stmts).kind = "Expr" /\ Head(stmts).value.kind = "Call")
          THEN 1 ELSE 0) + OwnLineCount(Tail(stmts))

\* C17: the block visit_FunctionDef appends for a function, nested or not, is
\* the signature line, "entry:", one line for each of the function's own
\* statements that emits one, the terminator (synthesized when the body did
\* not end on one) and the closing brace; and a return statement in the body of
\* main appends an i32 return wherever it stands.
C17_FunctionBlocksWhole ==
    [][/\ LeavingFunctionDef =>
            LET code == visitor.all_function_definitions_code
                code_after == visitor'.all_function_definitions_code
                own == OwnLineCount(TopFrame.node.body)
            IN /\ IsPrefix(code, code_after)
               /\ Len(code_after) - Len(code) \in {own + 3, own + 4}
               /\ code_after[Len(code) + 1] =
                     "define " \o FunctionReturnType(TopFrame.node)
                         \o " @" \o TopFrame.node.name \o "() {"
               /\ code_after[Len(code) + 2] = "entry:"
               /\ code_after[Len(code_after)] = "}"
       /\ (/\ pc = "emitting"
           /\ AtStatement
           /\ CurrentStmt.kind = "Return"
           /\ TopFrame.node.name = "main") =>
            LET body_after == visitor'.current_function_body_code
            IN /\ body_after # <<>>
               /\ StartsWith(body_after[Len(body_after)], "  ret i32 ")]_vars

\* the first position at or after k where part occurs in text; past the end of
\* text when it does not occur
RECURSIVE FirstIndexOf(_, _, _)
FirstIndexOf(text, part, k) ==
    IF k > Len(text) \/ HasAt(text, k, part) THEN k
    ELSE FirstIndexOf(text, part, k + 1)

\* the name a global_definitions entry declares: the text between "@" and " = "
GlobalName(gd) == SubSeq(gd, 2, FirstIndexOf(gd, " = ", 1) - 1)

\* the entries whose name was built from the block counter
CounterNamedGlobals(self) ==
    CountStartingWith(self.global_definitions, "@str_")
        + CountStartingWith(self.global_definitions, "@fmt_")

\* C18: no two entries of global_definitions declare the same name, and so no
\* two are equal; the block counter never decreases, and it has been
\* incremented once for each entry named after it, so that the counter is the
\* number of those entries and the next name built from it is a new one.
C18_GlobalNamesUnique ==
    [][visitor' # Unbound =>
          LET gds == visitor'.global_definitions IN
          /\ Cardinality({GlobalName(gds[i]) : i \in DOMAIN gds}) = Len(gds)
          /\ Cardinality(Range(gds)) = Len(gds)
          /\ CounterNamedGlobals(visitor') = visitor'.block_counter
          /\ (visitor # Unbound /\ pc = "emitting") =>
                visitor'.block_counter >= visitor.block_counter]_vars

\* print("H<e acute>"); print(x) in one function and print() in the next,
\* rendered: a string constant, a format constant and the newline constant
C18_Witness ==
    /\ pc = "serialized"
    /\ Len(visitor.global_definitions) = 3
    /\ {GlobalName(visitor.global_definitions[i]) : i \in 1..3}
          = {"str_0", "fmt_1", "global_newline_for_empty_print"}

====
